---- MODULE Spec2Model ----
(***************************************************************************)
(* Model of the Bloomin8 image synchronization tool (main.py) and of the   *)
(* parts of the bloomin8_api library it drives.  One run of main() is a    *)
(* sequential program; pc is its position.  The device, the local folder   *)
(* and the terminal are the environment: their answers are drawn by \E.    *)
(***************************************************************************)
EXTENDS Integers, Sequences, FiniteSets, TLC

\* ------------------------------------------------------------------ bounds
\* Local image files are named 1..MaxLocal and images on the device
\* 2..MaxRemote+1: the two ranges overlap without coinciding.
MaxLocal == 2
MaxRemote == 2
\* A BLE scan reports at most MaxAdverts advertisements.
MaxAdverts == 2
\* A gallery holds at most PageLimit + MaxBeyond images.
MaxBeyond == 1

\* --------------------------------------------------------------- constants
\* The value of a field the device's JSON did not carry (name: str | Unset = UNSET).
UNSET == 0
\* Default page size of GalleryManager.get / get_images.
PageLimit == 100

None == "None"
\* --gallery default, and some other gallery of the device.
args_gallery == "bloomin8-sync"
OtherGallery == "other"
\* A BLE address a scan can resolve.
ScanAddress == "AA:BB:CC:DD:EE:FF"

LocalNames == 1..MaxLocal
RemoteNames == 2..(MaxRemote + 1)

\* ----------------------------------------------------------------- strings
\* Strings the code transforms are sequences of characters.
LowerChar(c) ==
    CASE c = "Y" -> "y"
      [] c = "E" -> "e"
      [] c = "S" -> "s"
      [] c = "N" -> "n"
      [] c = "O" -> "o"
      [] c = "J" -> "j"
      [] c = "P" -> "p"
      [] c = "G" -> "g"
      [] OTHER -> c

\* str.lower()
lower(s) == [i \in DOMAIN s |-> LowerChar(s[i])]

IsSpace(c) == c \in {" ", "\t"}

RECURSIVE lstrip(_)
lstrip(s) == IF s # <<>> /\ IsSpace(Head(s)) THEN lstrip(Tail(s)) ELSE s

RECURSIVE rstrip(_)
rstrip(s) == IF s # <<>> /\ IsSpace(s[Len(s)]) THEN rstrip(SubSeq(s, 1, Len(s) - 1)) ELSE s

\* str.strip()
strip(s) == rstrip(lstrip(s))

\* ------------------------------------------------------------ local folder
\* A directory entry: name, Path.suffix, is_file() and stat().st_size.
JpgSuffix == <<".", "j", "p", "g">>
UpperJpegSuffix == <<".", "J", "P", "E", "G">>
PngSuffix == <<".", "p", "n", "g">>

ImageEntry(i) ==
    [name |-> i,
     suffix |-> IF i % 2 = 1 THEN JpgSuffix ELSE UpperJpegSuffix,
     is_file |-> TRUE,
     size |-> i]

\* Entries that are not image files: a .png file and a sub-directory named *.jpg.
\* Every source folder holds them beside its image files.
OtherEntries ==
    { [name |-> MaxLocal + MaxRemote + 2, suffix |-> PngSuffix, is_file |-> TRUE, size |-> 1],
      [name |-> MaxLocal + MaxRemote + 3, suffix |-> JpgSuffix, is_file |-> FALSE, size |-> 1] }

Directories ==
    { {ImageEntry(i) : i \in S} \cup X : S \in SUBSET LocalNames, X \in {OtherEntries} }

supported_extensions == {JpgSuffix, <<".", "j", "p", "e", "g">>}

\* ------------------------------------------------------------------ device
\* An image of the target gallery as the listing reports it.
DeviceEntry(n) == [name |-> n, size |-> 1]

DeviceGalleries == { <<>>, <<OtherGallery>>, <<args_gallery>>, <<OtherGallery, args_gallery>> }

SeqRange(s) == { s[i] : i \in DOMAIN s }

DeviceImageSets(gl) ==
    IF args_gallery \in SeqRange(gl)
    THEN { {DeviceEntry(n) : n \in S} \cup X : S \in SUBSET RemoteNames,
                                                X \in {{}, {DeviceEntry(UNSET)}} }
    ELSE { {} }

\* ------------------------------------------------------------ python calls
\* How a call ends: it returns a value or raises an exception.
Returned(v) == [kind |-> "return", value |-> v]
Raised(e) == [kind |-> "raise", value |-> e]

\* An exception: its class and the words of str(e) the code looks for.
Exc(cls, msg) == [cls |-> cls, msg |-> msg]

\* The classes an exception of a class is an instance of (httpx, httpcore and
\* the built-in exceptions, as the except clauses of the library name them).
Bases(cls) ==
    CASE cls = "httpx.ConnectTimeout" ->
            {"httpx.ConnectTimeout", "httpx.TimeoutException", "httpx.TransportError", "Exception"}
      [] cls = "httpx.ReadTimeout" ->
            {"httpx.ReadTimeout", "httpx.TimeoutException", "httpx.TransportError", "Exception"}
      [] cls = "httpx.ConnectError" ->
            {"httpx.ConnectError", "httpx.NetworkError", "httpx.TransportError", "Exception"}
      [] cls = "httpx.ReadError" ->
            {"httpx.ReadError", "httpx.NetworkError", "httpx.TransportError", "Exception"}
      [] cls = "httpcore.ConnectTimeout" ->
            {"httpcore.ConnectTimeout", "httpcore.TimeoutException", "Exception"}
      [] cls = "httpcore.ConnectError" ->
            {"httpcore.ConnectError", "Exception"}
      [] cls = "OSError" ->
            {"OSError", "Exception"}
      [] OTHER -> {cls, "Exception"}

\* The transport-level failures of an HTTP request and the exception each one
\* surfaces as: connection refused, connect timeout, read timeout, DNS
\* failure, a network error while reading, and a socket error that reaches
\* the caller as a plain OSError (with or without "refused"/"unreachable" in
\* its text).
TransportFailures ==
    { Exc("httpx.ConnectError", "refused"),
      Exc("httpx.ConnectTimeout", "timed out"),
      Exc("httpx.ReadTimeout", "timed out"),
      Exc("httpx.ConnectError", "name resolution"),
      Exc("httpx.ReadError", "reset"),
      Exc("httpcore.ConnectTimeout", "timed out"),
      Exc("httpcore.ConnectError", "refused"),
      Exc("OSError", "refused"),
      Exc("OSError", "unreachable"),
      Exc("OSError", "reset") }

\* HTTP status codes a reply can carry.
StatusCodes == 100..599

\* How the GET of /state can end: a reply with some status, or a failure.
GetOutcomes == { Returned(c) : c \in StatusCodes } \cup { Raised(e) : e \in TransportFailures }

\* --------------------------------------------------------------- bluetooth
\* The address of the i-th advertisement of a scan, and an address the caller
\* already knows.
AdvertAddress(i) ==
    CASE i = 1 -> ScanAddress
      [] i = 2 -> "AA:BB:CC:DD:EE:02"
      [] i = 3 -> "AA:BB:CC:DD:EE:03"
      [] OTHER -> "AA:BB:CC:DD:EE:04"
KnownAddress == "11:22:33:44:55:66"

\* device.name of an advertisement: absent (None), empty, or some text.
NoName == [named |-> FALSE, text |-> <<>>]
Name(s) == [named |-> TRUE, text |-> s]
AdvertNames ==
    { NoName, Name(<<>>), Name(<<"Y", "e", "s">>), Name(<<"N", "O">>), Name(<<"e">>) }

\* What BleakScanner.discover can return: up to MaxAdverts advertisements.
ScanResults ==
    UNION { [1..n -> AdvertNames] : n \in 0..MaxAdverts }

\* The device names a caller asks for; Bloomin8.wake_device never passes an
\* empty one (self._ble_name or "BLOOMIN8").
RequestedNames == { <<"E", "S">>, <<"e", "s">>, <<"S">> }

\* What a BLE operation raises when it fails.
BleFailures == { "bleak.BleakError", "TimeoutError", "OSError" }

\* ------------------------------------------------------------------- state
VARIABLES
    pc,              \* position of main()
    source,          \* what args.source is: "ok", "missing" or "not_dir"
    no_wakeup,       \* args.no_wakeup
    force,           \* args.force
    mirror,          \* args.mirror
    dir,             \* entries of the source folder
    dev_galleries,   \* the device's gallery list
    dev_images,      \* the images stored in the target gallery on the device
    ble_address,     \* Bloomin8._ble_address
    requests,        \* the calls made on the device object so far, in order
    galleries,       \* result of device.galleries.list()
    gal_idx,         \* position of the loop over galleries
    target_gallery,
    device_images,
    local_files,
    new_files,
    existing_files,
    removed_files,
    files_to_delete,
    response,        \* what input() gave
    continue_sync,
    del_todo,        \* removed_files not yet visited by the delete loop
    up_todo,         \* new_files not yet visited by the upload loop
    uploaded_count,
    deleted_count,
    total_bytes,
    has_failures,
    exit_code,       \* -1 while main() runs
    exit_site,       \* which return statement ended main(), and for the outer
                     \* handlers what raised
    call,            \* a library call examined on its own: the function and its inputs
    step,            \* the position inside that call
    address,         \* the address wake_device_bluetooth signals (its device_address)
    ble_writes,      \* the characteristic writes that call has sent, in order
    ret              \* how that call ended

vars == << pc, source, no_wakeup, force, mirror, dir, dev_galleries, dev_images,
           ble_address, requests, galleries, gal_idx, target_gallery, device_images,
           local_files, new_files, existing_files, removed_files, files_to_delete,
           response, continue_sync, del_todo, up_todo, uploaded_count, deleted_count,
           total_bytes, has_failures, exit_code, exit_site,
           call, step, address, ble_writes, ret >>

\* The variables of a library call examined on its own; a run of main() leaves
\* them alone, like its inputs.
libVars == << call, step, address, ble_writes, ret >>
inputVars == << source, no_wakeup, force, mirror, dir, dev_galleries, libVars >>
planVars == << local_files, new_files, existing_files, removed_files, files_to_delete >>
countVars == << uploaded_count, deleted_count, total_bytes >>
loopVars == << del_todo, up_todo >>
listVars == << galleries, gal_idx, target_gallery, device_images >>

\* A request sent to the device (or over BLE): what, for which image and
\* gallery, and how it ended.
NoImage == UNSET - 1
Req(op, image, gallery, result) ==
    [op |-> op, image |-> image, gallery |-> gallery, result |-> result]

NoInput == [kind |-> "none", text |-> <<>>]
Line(s) == [kind |-> "line", text |-> s]

\* What the terminal can answer to the prompt.
Inputs ==
    { Line(<<"y">>), Line(<<"Y", "E", "S">>), Line(<<"y", " ">>),
      Line(<<"n">>), Line(<<>>), Line(<<"y", "y">>),
      [kind |-> "EOFError", text |-> <<>>],
      [kind |-> "KeyboardInterrupt", text |-> <<>>] }

\* No library call is examined on its own.
NoCall == [fn |-> "none"]
NoResult == [kind |-> "none", value |-> None]

Init ==
    /\ pc = "start"
    /\ source \in {"ok", "missing", "not_dir"}
    /\ no_wakeup \in BOOLEAN
    /\ force \in BOOLEAN
    /\ mirror \in BOOLEAN
    /\ dir \in Directories
    /\ dev_galleries \in DeviceGalleries
    /\ dev_images \in DeviceImageSets(dev_galleries)
    /\ ble_address = None
    /\ requests = <<>>
    /\ galleries = <<>>
    /\ gal_idx = 1
    /\ target_gallery = None
    /\ device_images = {}
    /\ local_files = {}
    /\ new_files = {}
    /\ existing_files = {}
    /\ removed_files = {}
    /\ files_to_delete = {}
    /\ response = NoInput
    /\ continue_sync = FALSE
    /\ del_todo = {}
    /\ up_todo = {}
    /\ uploaded_count = 0
    /\ deleted_count = 0
    /\ total_bytes = 0
    /\ has_failures = FALSE
    /\ exit_code = -1
    /\ exit_site = "running"
    /\ call = NoCall
    /\ step = "idle"
    /\ address = None
    /\ ble_writes = <<>>
    /\ ret = NoResult

\* The variables of a run of main().
mainVars == << pc, source, no_wakeup, force, mirror, dir, dev_galleries, dev_images,
               ble_address, requests, listVars, planVars, response, continue_sync,
               loopVars, countVars, has_failures, exit_code, exit_site >>

\* main() is not running: a library call is examined on its own.
MainOff ==
    /\ pc = "off"
    /\ source = "ok"
    /\ no_wakeup = FALSE
    /\ force = FALSE
    /\ mirror = FALSE
    /\ dir = {}
    /\ dev_galleries = <<>>
    /\ dev_images = {}
    /\ ble_address = None
    /\ requests = <<>>
    /\ galleries = <<>>
    /\ gal_idx = 1
    /\ target_gallery = None
    /\ device_images = {}
    /\ local_files = {}
    /\ new_files = {}
    /\ existing_files = {}
    /\ removed_files = {}
    /\ files_to_delete = {}
    /\ response = NoInput
    /\ continue_sync = FALSE
    /\ del_todo = {}
    /\ up_todo = {}
    /\ uploaded_count = 0
    /\ deleted_count = 0
    /\ total_bytes = 0
    /\ has_failures = FALSE
    /\ exit_code = -1
    /\ exit_site = "running"

\* return <code> at the named place
Return(code, site) ==
    /\ pc' = "done"
    /\ exit_code' = code
    /\ exit_site' = site

Running(next) ==
    /\ pc' = next
    /\ UNCHANGED << exit_code, exit_site >>

\* ----------------------------------------------------------- main(): setup
\* A slip: only the existence of the source path is checked.
SourceCheckExistsOnly(src) == IF src = "missing" THEN "source_missing" ELSE "ok"

\* Lines 118-125: args.source.exists() and args.source.is_dir(); the return
\* statement taken, "ok" when none is.
SourceCheck(src) ==
    IF src = "missing" THEN "source_missing"
    ELSE IF src = "not_dir" THEN "source_not_dir"
    ELSE "ok"

\* Lines 118-138: validate the source folder, then create the device object.
ValidateSource ==
    /\ pc = "start"
    /\ IF SourceCheck(source) = "ok"
       THEN Running("probe")
       ELSE Return(1, SourceCheck(source))
    /\ UNCHANGED << inputVars, dev_images, ble_address, requests, listVars, planVars,
                    response, continue_sync, loopVars, countVars, has_failures >>

\* Bloomin8.is_awake, the classes its except clause names.
is_awake_except ==
    { "httpx.TimeoutException", "httpx.ConnectTimeout", "httpx.ReadTimeout",
      "httpx.ConnectError", "httpx.NetworkError", "Exception" }

\* A slip: every 2xx status counts as awake.
is_awake_any_success(reply) ==
    IF reply.kind = "return"
    THEN Returned(reply.value \in 200..299)
    ELSE IF Bases(reply.value.cls) \cap is_awake_except # {}
         THEN Returned(FALSE)
         ELSE reply

\* Bloomin8.is_awake(timeout): reply is how client.get(".../state") ended
\* under the short timeout.  response.status_code == 200 is returned; an
\* exception of a class the except clause names gives False, any other one
\* leaves the method.
is_awake(reply) ==
    IF reply.kind = "return"
    THEN Returned(reply.value = 200)
    ELSE IF Bases(reply.value.cls) \cap is_awake_except # {}
         THEN Returned(FALSE)
         ELSE reply

\* A slip: the wake is sent whatever the probe said.
NeedsWakeAlways(disabled, awake) == ~disabled

\* Lines 141-149: wake_device() is called when wake-up is not disabled and
\* is_awake() returned False.
NeedsWake(disabled, awake) == ~disabled /\ ~awake

\* Lines 140-149: unless --no-wakeup, probe the device with is_awake().
\* An exception leaving is_awake() would end main() in its outer handler.
CheckAwake ==
    /\ pc = "probe"
    /\ IF no_wakeup
       THEN /\ Running("list_galleries")
            /\ UNCHANGED requests
       ELSE \E reply \in GetOutcomes :
            LET r == is_awake(reply)
                awake == r.kind = "return" /\ r.value
            IN
            /\ requests' = Append(requests, Req("is_awake", NoImage, None, awake))
            /\ IF r.kind = "raise"
               THEN Return(1, "unexpected_probe")
               ELSE Running(IF NeedsWake(no_wakeup, awake) THEN "wake"
                            ELSE "list_galleries")
    /\ UNCHANGED << inputVars, dev_images, ble_address, listVars, planVars,
                    response, continue_sync, loopVars, countVars, has_failures >>

\* wake_device_bluetooth(device_name, device_address, ...): scan when no address
\* is known, then signal; <<success, address>>.
wake_device_bluetooth(device_address, scanned, signalled) ==
    IF device_address = None /\ scanned = None
    THEN << FALSE, None >>
    ELSE << signalled, IF device_address = None THEN scanned ELSE device_address >>

\* A slip: the cached address always becomes what the last wake reported.
StoredAddressLatest(old, discovered_address) == discovered_address

\* Bloomin8.wake_device: the address to keep after the wake attempt.
StoredAddress(old, discovered_address) ==
    IF discovered_address # None /\ old = None THEN discovered_address ELSE old

\* A slip: a wake that failed skips the synchronization.
AfterWakeChecked(success) == IF success THEN "list_galleries" ELSE "sleep"

\* Lines 149-158: what wake_device() returned is not looked at; the gallery
\* list is requested next.
AfterWake(success) == "list_galleries"

\* Line 149: device.wake_device(); its result is not looked at.
WakeDevice ==
    /\ pc = "wake"
    /\ \E scanned \in {None, ScanAddress}, signalled \in BOOLEAN :
         LET r == wake_device_bluetooth(ble_address, scanned, signalled) IN
         /\ ble_address' = StoredAddress(ble_address, r[2])
         /\ requests' = Append(requests, Req("ble_wake", NoImage, None, r[1]))
         /\ Running(AfterWake(r[1]))
    /\ UNCHANGED << inputVars, dev_images, listVars, planVars,
                    response, continue_sync, loopVars, countVars, has_failures >>

\* ------------------------------------------------- main(): gallery listing
\* A slip: a gallery list that could not be obtained is taken as empty.
ListExitLenient(outcome) ==
    CASE outcome \in {"list", "none"} -> "ok"
      [] outcome = "unreachable" -> "unreachable"
      [] OTHER -> "unexpected_list"

\* Lines 158-182 and 382-387: the return statement the result of
\* device.galleries.list() leads to, "ok" when the run goes on.
ListExit(outcome) ==
    CASE outcome = "list" -> "ok"
      [] outcome = "none" -> "galleries_none"
      [] outcome = "unreachable" -> "unreachable"
      [] OTHER -> "unexpected_list"

\* Lines 155-182: device.galleries.list().  It returns the list, returns None
\* (a reply that is not the documented one), raises DeviceUnreachableError
\* (handle_connection_errors) or raises something else.
ListGalleries ==
    /\ pc = "list_galleries"
    /\ \E outcome \in {"list", "none", "unreachable", "error"} :
         /\ requests' = Append(requests, Req("gallery_list", NoImage, None, outcome = "list"))
         /\ IF ListExit(outcome) = "ok"
            THEN /\ galleries' = (IF outcome = "list" THEN dev_galleries ELSE <<>>)
                 /\ Running("enumerate")
            ELSE /\ Return(1, ListExit(outcome))
                 /\ UNCHANGED galleries
    /\ gal_idx' = 1
    /\ target_gallery' = None
    /\ UNCHANGED << inputVars, dev_images, ble_address, device_images, planVars,
                    response, continue_sync, loopVars, countVars, has_failures >>

\* A slip: the last gallery of the list is taken, whatever its name.
TargetOfAny(gallery, current) == gallery

\* Lines 166-167: the target gallery is the one named like --gallery.
TargetOf(gallery, current) == IF gallery = args_gallery THEN gallery ELSE current

\* A slip: a failed image count skips the synchronization.
AfterImageCountStops(raised) == IF raised THEN "sleep" ELSE "enumerate"

\* A slip: after a failed image count the gallery list is fetched again.
AfterImageCountRelist(raised) == IF raised THEN "list_galleries" ELSE "enumerate"

\* Lines 173-179: the image count is fetched for the log only; whether the
\* call returned or raised, the loop goes on.
AfterImageCount(raised) == "enumerate"

\* Lines 163-174: one turn of the loop over galleries, up to the call that
\* fetches the gallery's images for the count; the call returns or raises
\* (DeviceUnreachableError included).
EnumerateGallery ==
    /\ pc = "enumerate"
    /\ gal_idx <= Len(galleries)
    /\ LET gallery == galleries[gal_idx] IN
       /\ target_gallery' = TargetOf(gallery, target_gallery)
       /\ requests' = Append(requests, Req("get_images", NoImage, gallery, "count"))
    /\ \E raised \in BOOLEAN : Running(IF raised THEN "count_failed" ELSE "counted")
    /\ UNCHANGED << inputVars, dev_images, ble_address, galleries, gal_idx, device_images,
                    planVars, response, continue_sync, loopVars, countVars, has_failures >>

\* Lines 175-179: the rest of the turn: the count is logged, or the except
\* clause logs the gallery without a count; the loop takes the next gallery.
LogImageCount ==
    /\ pc \in {"counted", "count_failed"}
    /\ gal_idx' = gal_idx + 1
    /\ Running(AfterImageCount(pc = "count_failed"))
    /\ UNCHANGED << inputVars, dev_images, ble_address, requests, galleries, target_gallery,
                    device_images, planVars, response, continue_sync, loopVars, countVars,
                    has_failures >>

\* The sets left when some k elements are taken out of a set.
RECURSIVE Without(_, _)
Without(set, k) ==
    IF k = 0 THEN {set} ELSE UNION { Without(set \ {e}, k - 1) : e \in set }

\* GalleryManager.get_images(gallery_name): the first page of the gallery
\* (offset 0, limit 100) as the device holds it; the pages the device can answer.
get_images(stored) ==
    IF Cardinality(stored) <= PageLimit
    THEN {stored}
    ELSE Without(stored, Cardinality(stored) - PageLimit)

\* Lines 184-196: the images of the target gallery.  A gallery that is not in
\* the list has none; otherwise get_images returns the page, returns [] (no
\* parsed reply) or raises (DeviceUnreachableError or anything else), which
\* ends the run at line 196.
ListTargetImages ==
    /\ pc = "enumerate"
    /\ gal_idx > Len(galleries)
    /\ IF target_gallery = None
       THEN /\ device_images' = {}
            /\ Running("scan")
            /\ UNCHANGED requests
       ELSE \E outcome \in {"page", "empty", "unreachable", "raises"} :
            /\ requests' = Append(requests,
                                  Req("get_images", NoImage, args_gallery, outcome))
            /\ CASE outcome = "page" ->
                      /\ device_images' \in get_images(dev_images)
                      /\ Running("scan")
                 [] outcome = "empty" ->
                      /\ device_images' = {}
                      /\ Running("scan")
                 [] outcome = "unreachable" ->
                      /\ Return(1, "target_unreachable")
                      /\ UNCHANGED device_images
                 [] OTHER ->
                      /\ Return(1, "target_listing_failed")
                      /\ UNCHANGED device_images
    /\ UNCHANGED << inputVars, dev_images, ble_address, galleries, gal_idx, target_gallery,
                    planVars, response, continue_sync, loopVars, countVars, has_failures >>

\* ------------------------------------------------------- main(): the plan
\* Lines 200-205: the image files of the source folder.
ScanLocal(d) == { e \in d : e.is_file /\ lower(e.suffix) \in supported_extensions }

\* Line 210
local_filenames(files) == { f.name : f \in files }

\* Line 211: hasattr(img, 'name') holds for every listing entry, also for one
\* whose name is UNSET.
device_filenames(images) == { img.name : img \in images }

\* Line 214
NewFiles(files, remote) == { f \in files : f.name \notin remote }

\* A slip: the local files are not filtered against the remote names.
ExistingFilesUnfiltered(files, remote) == files

\* Line 215
ExistingFiles(files, remote) == { f \in files : f.name \in remote }

\* A slip: the remote names are not filtered against the local ones.
RemovedFilesUnfiltered(remote, locals) == remote

\* Line 216
RemovedFiles(remote, locals) == { name \in remote : name \notin locals }

\* A slip: the --mirror flag is not consulted.
FilesToDeleteAlways(removed, mirror_flag) == removed

\* Line 254
FilesToDelete(removed, mirror_flag) == IF mirror_flag THEN removed ELSE {}

\* A slip: only uploads count as work.
HasWorkUploadsOnly(new, to_delete) == new # {}

\* Line 257: is there work?
HasWork(new, to_delete) == ~(new = {} /\ to_delete = {})

\* Lines 198-258: scan the source folder and build the plan.  iterdir() can
\* raise (the folder became unreadable), which the outer handler turns into
\* exit code 1.
BuildPlan ==
    /\ pc = "scan"
    /\ \E scan_ok \in BOOLEAN :
         IF scan_ok
         THEN LET files == ScanLocal(dir)
                  remote == device_filenames(device_images)
                  removed == RemovedFiles(remote, local_filenames(files))
              IN  /\ local_files' = files
                  /\ new_files' = NewFiles(files, remote)
                  /\ existing_files' = ExistingFiles(files, remote)
                  /\ removed_files' = removed
                  /\ files_to_delete' = FilesToDelete(removed, mirror)
                  /\ Running(IF HasWork(NewFiles(files, remote), FilesToDelete(removed, mirror))
                             THEN "confirm" ELSE "sleep")
         ELSE /\ Return(1, "unexpected_scan")
              /\ UNCHANGED planVars
    /\ has_failures' = FALSE
    /\ UNCHANGED << inputVars, dev_images, ble_address, requests, listVars,
                    response, continue_sync, loopVars, countVars >>

\* A slip: the empty answer counts as yes.
ConfirmedByDefault(inp) ==
    /\ inp.kind = "line"
    /\ lower(strip(inp.text)) \in { <<>>, <<"y">>, <<"y", "e", "s">> }

\* Lines 265-273: the answer that lets the synchronization proceed.
Confirmed(inp) ==
    /\ inp.kind = "line"
    /\ lower(strip(inp.text)) \in { <<"y">>, <<"y", "e", "s">> }

\* A slip: the upload loop is placed before the delete loop.
NextStepUploadsFirst(deletes, uploads) ==
    IF uploads # {} THEN "upload"
    ELSE IF deletes # {} THEN "delete"
    ELSE "report"

\* Lines 290-335: the delete loop runs to its end before the upload loop starts.
NextStep(deletes, uploads) ==
    IF deletes # {} THEN "delete"
    ELSE IF uploads # {} THEN "upload"
    ELSE "report"

\* Line 291: the delete loop runs over removed_files in mirror mode only.
DeleteLoopItems(mirror_flag, removed) == IF mirror_flag /\ removed # {} THEN removed ELSE {}

\* Lines 260-288: ask for confirmation unless --force; on yes, start.
Confirm ==
    /\ pc = "confirm"
    /\ \E inp \in (IF force THEN {NoInput} ELSE Inputs) :
         LET go == force \/ Confirmed(inp) IN
         /\ response' = inp
         /\ continue_sync' = go
         /\ IF go
            THEN /\ del_todo' = DeleteLoopItems(mirror, removed_files)
                 /\ up_todo' = new_files
                 /\ Running(NextStep(DeleteLoopItems(mirror, removed_files), new_files))
            ELSE /\ UNCHANGED loopVars
                 /\ Running("sleep")
    /\ uploaded_count' = 0
    /\ deleted_count' = 0
    /\ total_bytes' = 0
    /\ UNCHANGED << inputVars, dev_images, ble_address, requests, listVars, planVars,
                    has_failures >>

\* ------------------------------------------------- main(): the execution
\* What the device holds after POST /image/delete answered 200.
DeviceAfterDelete(stored, name) ==
    IF name = UNSET THEN stored ELSE { e \in stored : e.name # name }

\* What the device holds after POST /upload answered 200.
DeviceAfterUpload(stored, f) ==
    { e \in stored : e.name # f.name } \cup { [name |-> f.name, size |-> f.size] }

\* The loops visit their lists front to back; a list is kept here as the set
\* of its items, in ascending order of name.
FirstName(names) == CHOOSE n \in names : \A m \in names : n <= m

FirstFile(files) == CHOOSE f \in files : \A g \in files : f.name <= g.name

\* A slip: only an item the device answered with status 200 is counted.
CountedOnStatus200(outcome) == outcome = "ok"

\* Lines 301-305 and 326-331: the counter is incremented when the manager call
\* returned, whatever the status of the reply; an exception skips the increment.
Counted(outcome) == outcome \notin {"raises", "read_raises"}

\* Lines 294-308: one turn of the delete loop.  device.images.delete returns
\* the reply whatever its status (200 or not), or raises; an exception is
\* logged and the loop goes on.
DeleteItem ==
    /\ pc = "delete"
    /\ \E filename \in {FirstName(del_todo)}, outcome \in {"ok", "not_ok", "raises"} :
         /\ requests' = Append(requests, Req("delete", filename, args_gallery, outcome))
         /\ deleted_count' = IF Counted(outcome) THEN deleted_count + 1 ELSE deleted_count
         /\ dev_images' = IF outcome = "ok" THEN DeviceAfterDelete(dev_images, filename)
                          ELSE dev_images
         /\ del_todo' = del_todo \ {filename}
         /\ Running(NextStep(del_todo \ {filename}, up_todo))
    /\ UNCHANGED << inputVars, ble_address, listVars, planVars, response, continue_sync,
                    up_todo, uploaded_count, total_bytes, has_failures >>

\* Lines 314-334: one turn of the upload loop.  file_path.stat() is outside
\* the try: when it raises, the exception leaves the loop and main() returns
\* 1 from the outer handler.  upload_from_file returns the reply whatever its
\* status, or raises: before anything is sent when the file cannot be found
\* or read (image.py 134-142), or from the request; either exception is
\* logged and the loop goes on.
UploadItem ==
    /\ pc = "upload"
    /\ \E file_path \in {FirstFile(up_todo)},
          outcome \in {"stat_raises", "read_raises", "ok", "not_ok", "raises"} :
         IF outcome = "stat_raises"
         THEN /\ Return(1, "unexpected_stat")
              /\ UNCHANGED << requests, uploaded_count, total_bytes, dev_images, up_todo >>
         ELSE /\ total_bytes' = total_bytes + file_path.size
              /\ requests' = Append(requests,
                                    Req("upload", file_path.name, args_gallery, outcome))
              /\ uploaded_count' = IF Counted(outcome) THEN uploaded_count + 1
                                   ELSE uploaded_count
              /\ dev_images' = IF outcome = "ok" THEN DeviceAfterUpload(dev_images, file_path)
                               ELSE dev_images
              /\ up_todo' = up_todo \ {file_path}
              /\ Running(NextStep(del_todo, up_todo \ {file_path}))
    /\ UNCHANGED << inputVars, ble_address, listVars, planVars, response, continue_sync,
                    del_todo, deleted_count, has_failures >>

\* Lines 361-364
HasFailures(uploaded, new, mirror_flag, removed, deleted) ==
    \/ uploaded < Cardinality(new)
    \/ (mirror_flag /\ removed # {} /\ deleted < Cardinality(removed))

\* Lines 336-370: statistics and the failure check.
Report ==
    /\ pc = "report"
    /\ has_failures' = HasFailures(uploaded_count, new_files, mirror, removed_files,
                                   deleted_count)
    /\ Running("sleep")
    /\ UNCHANGED << inputVars, dev_images, ble_address, requests, listVars, planVars,
                    response, continue_sync, loopVars, countVars >>

\* A slip: a failed sleep request counts as a failure of the run.
ExitCodeSleepCounts(failures, slept) == IF failures \/ ~slept THEN 1 ELSE 0

\* Line 380
ExitCode(failures, slept) == IF failures THEN 1 ELSE 0

\* Lines 372-380: device.system.sleep(), whose exception is logged and
\* dropped, then return.
Sleep ==
    /\ pc = "sleep"
    /\ \E slept \in BOOLEAN :
         /\ requests' = Append(requests, Req("sleep", NoImage, None, slept))
         /\ Return(ExitCode(has_failures, slept), "report")
    /\ UNCHANGED << inputVars, dev_images, ble_address, listVars, planVars,
                    response, continue_sync, loopVars, countVars, has_failures >>

Next ==
    \/ ValidateSource
    \/ CheckAwake
    \/ WakeDevice
    \/ ListGalleries
    \/ EnumerateGallery
    \/ LogImageCount
    \/ ListTargetImages
    \/ BuildPlan
    \/ Confirm
    \/ DeleteItem
    \/ UploadItem
    \/ Report
    \/ Sleep

Spec == Init /\ [][Next]_vars

\* ------------------------------------------- the liveness probe on its own
\* Bloomin8.is_awake called once, for every way the GET of /state can end.
ProbeInit ==
    /\ MainOff
    /\ call \in { [fn |-> "is_awake", reply |-> o] : o \in GetOutcomes }
    /\ step = "call"
    /\ address = None
    /\ ble_writes = <<>>
    /\ ret = NoResult

IsAwake ==
    /\ step = "call"
    /\ call.fn = "is_awake"
    /\ ret' = is_awake(call.reply)
    /\ step' = "done"
    /\ UNCHANGED << mainVars, call, address, ble_writes >>

ProbeNext == IsAwake

ProbeSpec == ProbeInit /\ [][ProbeNext]_vars

\* ------------------------------------------------ the BLE wake on its own
\* Python's "needle in hay" for strings.
Contains(needle, hay) ==
    \E i \in 0..(Len(hay) - Len(needle)) : SubSeq(hay, i + 1, i + Len(needle)) = needle

\* Line 33: device.name and device_name.lower() in device.name.lower()
Matches(device_name, name) ==
    /\ name.named
    /\ name.text # <<>>
    /\ Contains(lower(device_name), lower(name.text))

\* _scan_for_device_async (lines 30-38): the address of the first
\* advertisement that matches, None when there is none.
scan_for_device_async(device_name, devices) ==
    LET hits == { i \in DOMAIN devices : Matches(device_name, devices[i]) }
    IN IF hits = {} THEN None
       ELSE AdvertAddress(CHOOSE i \in hits : \A j \in hits : i <= j)

\* Lines 62-66
WAKEUP_CHARACTERISTIC_UUID == "0000f001-0000-1000-8000-00805f9b34fb"
WAKEUP_PAYLOAD == 1
WAKEUP_RESET_PAYLOAD == 0

\* A write of one byte to a characteristic.
GattWrite(uuid, payload) == [char |-> uuid, value |-> payload]

\* A slip: the two payloads are sent in the other order.
PayloadAtSwapped(position) ==
    IF position = "signaling" THEN WAKEUP_RESET_PAYLOAD ELSE WAKEUP_PAYLOAD

\* Lines 76 and 85: the byte written first and the byte written after the pause.
PayloadAt(position) ==
    IF position = "signaling" THEN WAKEUP_PAYLOAD ELSE WAKEUP_RESET_PAYLOAD

\* A slip: only bleak's own errors are handled.
BleHandlesBleakOnly(cls) == "bleak.BleakError" \in Bases(cls)

\* Lines 40, 93 and 158: except Exception
BleHandles(cls) == "Exception" \in Bases(cls)

\* Lines 158-160: the outer handler of wake_device_bluetooth.
WakeFailed(cls) == IF BleHandles(cls) THEN Returned(<< FALSE, None >>) ELSE Raised(cls)

\* Lines 40-42 and 146-148: a scan that raised returns None, which is "not found".
ScanFailed(cls) == IF BleHandles(cls) THEN Returned(<< FALSE, None >>) ELSE WakeFailed(cls)

\* Lines 93-95 and 156: a signal that raised returns False.
SendFailed(cls, addr) ==
    IF BleHandles(cls) THEN Returned(<< FALSE, addr >>) ELSE WakeFailed(cls)

WakeInit ==
    /\ MainOff
    /\ call \in { [fn |-> "wake_device_bluetooth", device_name |-> n,
                   device_address |-> a, devices |-> d] :
                  n \in RequestedNames, a \in {None, KnownAddress}, d \in ScanResults }
    /\ step = "call"
    /\ address = None
    /\ ble_writes = <<>>
    /\ ret = NoResult

\* The call ends with the result r.
WakeReturns(r) ==
    /\ ret' = r
    /\ step' = "done"

\* A BLE operation raised: the call ends with what the handlers make of it.
WakeRaised(r) ==
    /\ ret' = r
    /\ step' = "failed"

\* Lines 132-141: get the event loop; scan only when no address was given.
GetLoop ==
    /\ step = "call"
    /\ call.fn = "wake_device_bluetooth"
    /\ \E outcome \in {"ok"} \cup BleFailures :
         IF outcome = "ok"
         THEN /\ address' = call.device_address
              /\ step' = IF call.device_address = None THEN "scanning" ELSE "connecting"
              /\ UNCHANGED ret
         ELSE /\ WakeRaised(WakeFailed(outcome))
              /\ UNCHANGED address
    /\ UNCHANGED << mainVars, call, ble_writes >>

\* Lines 142-148 and 28-42: BleakScanner.discover and the search for the name.
Scan ==
    /\ step = "scanning"
    /\ \E outcome \in {"ok"} \cup BleFailures :
         IF outcome = "ok"
         THEN LET found == scan_for_device_async(call.device_name, call.devices) IN
              IF found = None
              THEN /\ WakeReturns(Returned(wake_device_bluetooth(None, None, FALSE)))
                   /\ UNCHANGED address
              ELSE /\ address' = found
                   /\ step' = "connecting"
                   /\ UNCHANGED ret
         ELSE /\ WakeRaised(ScanFailed(outcome))
              /\ UNCHANGED address
    /\ UNCHANGED << mainVars, call, ble_writes >>

\* Lines 70-71 and 89-91: async with BleakClient(address) and is_connected.
Connect ==
    /\ step = "connecting"
    /\ \E outcome \in {"connected", "not_connected"} \cup BleFailures :
         CASE outcome = "connected" ->
                /\ step' = "signaling"
                /\ UNCHANGED ret
           [] outcome = "not_connected" ->
                WakeReturns(Returned(wake_device_bluetooth(call.device_address, address, FALSE)))
           [] OTHER -> WakeRaised(SendFailed(outcome, address))
    /\ UNCHANGED << mainVars, call, address, ble_writes >>

\* Line 76: write the wake byte.
Signal ==
    /\ step = "signaling"
    /\ \E outcome \in {"ok"} \cup BleFailures :
         IF outcome = "ok"
         THEN /\ ble_writes' = Append(ble_writes,
                                      GattWrite(WAKEUP_CHARACTERISTIC_UUID, PayloadAt(step)))
              /\ step' = "resetting"
              /\ UNCHANGED ret
         ELSE /\ WakeRaised(SendFailed(outcome, address))
              /\ UNCHANGED ble_writes
    /\ UNCHANGED << mainVars, call, address >>

\* Lines 81-85: after the pause, write the reset byte.
Reset ==
    /\ step = "resetting"
    /\ \E outcome \in {"ok"} \cup BleFailures :
         IF outcome = "ok"
         THEN /\ ble_writes' = Append(ble_writes,
                                      GattWrite(WAKEUP_CHARACTERISTIC_UUID, PayloadAt(step)))
              /\ step' = "disconnecting"
              /\ UNCHANGED ret
         ELSE /\ WakeRaised(SendFailed(outcome, address))
              /\ UNCHANGED ble_writes
    /\ UNCHANGED << mainVars, call, address >>

\* Line 88: return True leaves the async with block, which disconnects; an
\* exception raised there replaces the return value.
Disconnect ==
    /\ step = "disconnecting"
    /\ \E outcome \in {"ok"} \cup BleFailures :
         IF outcome = "ok"
         THEN WakeReturns(Returned(wake_device_bluetooth(call.device_address, address, TRUE)))
         ELSE WakeRaised(SendFailed(outcome, address))
    /\ UNCHANGED << mainVars, call, address, ble_writes >>

WakeNext ==
    \/ GetLoop
    \/ Scan
    \/ Connect
    \/ Signal
    \/ Reset
    \/ Disconnect

WakeSpec == WakeInit /\ [][WakeNext]_vars

\* --------------------------------------------- a manager call on its own
\* The methods of the four managers that send a request to the device.
ManagerMethods ==
    { "system.get_device_info", "system.get_state", "system.get_whistle",
      "system.clear_screen", "system.reboot", "system.update_settings", "system.show",
      "system.show_next", "system.sleep",
      "galleries.list", "galleries.get", "galleries.get_images",
      "galleries.create_or_update", "galleries.delete",
      "images.upload", "images.upload_multiple", "images.upload_data", "images.delete",
      "images.upload_from_file",
      "playlists.list", "playlists.get", "playlists.create_or_update", "playlists.delete" }

\* The methods whose request is made inside @self._handle_errors; reboot and
\* update_settings call sync_detailed directly.
Wrapped(method) == method \notin { "system.reboot", "system.update_settings" }

DeviceUnreachableError(reason) == Exc("DeviceUnreachableError", reason)

\* str(e).lower() holds "refused" or "unreachable" (utils.py line 46).
SaysUnreachable(e) == e.msg \in { "refused", "unreachable" }

\* handle_connection_errors: the except clauses in their order; outcome is
\* how the wrapped function ended.
handle_connection_errors(outcome) ==
    IF outcome.kind # "raise" THEN outcome
    ELSE LET e == outcome.value
             is == Bases(e.cls)
         IN CASE "httpcore.ConnectTimeout" \in is -> Raised(DeviceUnreachableError("Connection timed out"))
              [] "httpcore.ConnectError" \in is -> Raised(DeviceUnreachableError("Connection failed"))
              [] "httpx.ConnectTimeout" \in is -> Raised(DeviceUnreachableError("Connection timed out"))
              [] "httpx.ConnectError" \in is -> Raised(DeviceUnreachableError("Connection failed"))
              [] "httpx.TimeoutException" \in is -> Raised(DeviceUnreachableError("Request timed out"))
              [] "httpx.NetworkError" \in is -> Raised(DeviceUnreachableError("Network error"))
              [] "OSError" \in is /\ SaysUnreachable(e) -> Raised(DeviceUnreachableError(e.msg))
              [] OTHER -> outcome

\* How a manager method ends when its request ended with outcome.
manager_call(method, outcome) ==
    IF Wrapped(method) THEN handle_connection_errors(outcome) ELSE outcome

\* How a request to the device can end: some reply, or a transport failure.
RequestOutcomes == { Returned("reply") } \cup { Raised(e) : e \in TransportFailures }

ManagerInit ==
    /\ MainOff
    /\ call \in { [fn |-> "manager", method |-> m, outcome |-> o] :
                  m \in ManagerMethods, o \in RequestOutcomes }
    /\ step = "call"
    /\ address = None
    /\ ble_writes = <<>>
    /\ ret = NoResult

ManagerCall ==
    /\ step = "call"
    /\ call.fn = "manager"
    /\ ret' = manager_call(call.method, call.outcome)
    /\ step' = "done"
    /\ UNCHANGED << mainVars, call, address, ble_writes >>

ManagerNext == ManagerCall

ManagerSpec == ManagerInit /\ [][ManagerNext]_vars

\* ------------------------------------------- the image listing on its own
\* GalleryManager.get_images called once on a gallery of any size up to
\* PageLimit + MaxBeyond.
ListingInit ==
    /\ MainOff
    /\ call \in { [fn |-> "get_images", stored |-> { DeviceEntry(n) : n \in 1..k }] :
                  k \in 0..(PageLimit + MaxBeyond) }
    /\ step = "call"
    /\ address = None
    /\ ble_writes = <<>>
    /\ ret = NoResult

GetImages ==
    /\ step = "call"
    /\ call.fn = "get_images"
    /\ \E page \in get_images(call.stored) : ret' = Returned(page)
    /\ step' = "done"
    /\ UNCHANGED << mainVars, call, address, ble_writes >>

ListingNext == GetImages

ListingSpec == ListingInit /\ [][ListingNext]_vars

\* ------------------------------------- wake_device calls on one session
\* Bloomin8(host, ble_name=..., ble_address=...) followed by up to MaxCalls
\* calls of wake_device(); each call runs wake_device_bluetooth step by step.
MaxCalls == 3

\* Optional[str] values of ble_name: None, "" or a name.
SessionNames == { NoName, Name(<<>>) } \cup { Name(n) : n \in RequestedNames }

\* Line 178: self._ble_name or "BLOOMIN8"
DefaultDeviceName == << "B", "L", "O", "O", "M", "I", "N", "8" >>
DeviceNameOf(ble_name) ==
    IF ble_name.named /\ ble_name.text # <<>> THEN ble_name.text ELSE DefaultDeviceName

SessionInit ==
    /\ MainOff
    /\ call = [fn |-> "Bloomin8"]
    /\ step = "new"
    /\ address = None
    /\ ble_writes = <<>>
    /\ ret = NoResult

\* The session between two calls.
Session(ble_name, calls) == [fn |-> "Bloomin8", ble_name |-> ble_name, calls |-> calls]

\* Bloomin8.__init__: the caller may supply a name and a known address.
NewSession ==
    /\ step = "new"
    /\ call.fn = "Bloomin8"
    /\ \E n \in SessionNames, a \in {None, KnownAddress} :
         /\ call' = Session(n, 0)
         /\ ble_address' = a
    /\ step' = "idle"
    /\ UNCHANGED << pc, source, no_wakeup, force, mirror, dir, dev_galleries, dev_images,
                    requests, listVars, planVars, response, continue_sync,
                    loopVars, countVars, has_failures, exit_code, exit_site,
                    address, ble_writes, ret >>

\* Lines 178-184: wake_device calls wake_device_bluetooth with the session's
\* name and cached address.
WakeDeviceCall ==
    /\ step = "idle"
    /\ call.fn = "Bloomin8"
    /\ call.calls < MaxCalls
    /\ \E d \in ScanResults :
         call' = [fn |-> "wake_device_bluetooth",
                  device_name |-> DeviceNameOf(call.ble_name),
                  device_address |-> ble_address, devices |-> d,
                  ble_name |-> call.ble_name, calls |-> call.calls + 1]
    /\ step' = "call"
    /\ address' = None
    /\ ble_writes' = <<>>
    /\ ret' = NoResult
    /\ UNCHANGED mainVars

\* Lines 186-190: store the reported address when none was cached, and return
\* success; an exception of wake_device_bluetooth passes through.
WakeDeviceReturn ==
    /\ step \in {"done", "failed"}
    /\ call.fn = "wake_device_bluetooth"
    /\ "calls" \in DOMAIN call
    /\ IF ret.kind = "return"
       THEN /\ ble_address' = StoredAddress(ble_address, ret.value[2])
            /\ ret' = Returned(ret.value[1])
       ELSE UNCHANGED << ble_address, ret >>
    /\ call' = Session(call.ble_name, call.calls)
    /\ step' = "idle"
    /\ UNCHANGED << pc, source, no_wakeup, force, mirror, dir, dev_galleries, dev_images,
                    requests, listVars, planVars, response, continue_sync,
                    loopVars, countVars, has_failures, exit_code, exit_site,
                    address, ble_writes >>

SessionNext ==
    \/ NewSession
    \/ WakeDeviceCall
    \/ GetLoop
    \/ Scan
    \/ Connect
    \/ Signal
    \/ Reset
    \/ Disconnect
    \/ WakeDeviceReturn

SessionSpec == SessionInit /\ [][SessionNext]_vars

\* ===================================================== checked properties
\* Positions of the requests of one kind in the request log.
RequestsOf(op) == { i \in DOMAIN requests : requests[i].op = op }

\* The request sent last.
LastRequest == requests[Len(requests)]

\* How often a request of one kind was sent for one image.
Attempts(op, image) ==
    Cardinality({ i \in RequestsOf(op) : requests[i].image = image })

\* The plan of this run has been built (BuildPlan has run to its end).
PlanBuilt ==
    \/ pc \in {"confirm", "delete", "upload", "report", "sleep"}
    \/ pc = "done" /\ exit_site \in {"report", "unexpected_stat"}

\* The names of a set of local files.
NamesOf(files) == { f.name : f \in files }

\* The filename sets the plan is built from.
PlanL == { f.name : f \in local_files }
PlanR == { img.name : img \in device_images }

\* C1: the plan is to_upload = L minus R, unchanged = L intersect R, and
\* to_delete = R minus L in mirror mode and empty otherwise, L and R being
\* the local and the remote filename sets; only names are compared.
C1_PlanIsSetDifference ==
    PlanBuilt =>
        /\ NamesOf(new_files) = PlanL \ PlanR
        /\ NamesOf(existing_files) = PlanL \cap PlanR
        /\ files_to_delete = (IF mirror THEN PlanR \ PlanL ELSE {})
        /\ new_files \cup existing_files = local_files

\* C1 witness: a plan in mirror mode with an upload, a delete and an unchanged
\* file whose size differs from the size of the device's image of that name.
C1_Witness ==
    /\ PlanBuilt
    /\ mirror
    /\ new_files # {}
    /\ files_to_delete \cap RemoteNames # {}
    /\ \E f \in existing_files : \E img \in device_images :
           img.name = f.name /\ img.size # f.size

\* C2 (as claimed): once the execution of a confirmed plan has started, the run
\* ends with every planned delete and every planned upload attempted exactly
\* once, and succeeded plus failed items number |to_delete| + |to_upload|.
C2_EveryItemAttemptedOnce ==
    (pc = "done" /\ continue_sync) =>
        /\ \A name \in files_to_delete : Attempts("delete", name) = 1
        /\ \A f \in new_files : Attempts("upload", f.name) = 1
        /\ Cardinality(RequestsOf("delete")) + Cardinality(RequestsOf("upload"))
               = Cardinality(files_to_delete) + Cardinality(new_files)

\* C3: every delete request is sent before the first upload request.
C3_DeletesBeforeUploads ==
    \A j \in DOMAIN requests :
        requests[j].op = "upload" =>
            \A i \in j..Len(requests) : requests[i].op # "delete"

\* C3 witness: a finished run with deletes and uploads planned, in which a
\* delete failed and an upload was sent afterwards.
C3_Witness ==
    /\ pc = "done"
    /\ files_to_delete # {}
    /\ new_files # {}
    /\ \E i \in RequestsOf("delete") : requests[i].result = "raises"
    /\ RequestsOf("upload") # {}

\* A delete or an upload the device did not carry out: the call raised or
\* the reply's status was not 200.
ItemRequests == RequestsOf("delete") \cup RequestsOf("upload")
FailedItems == { i \in ItemRequests : requests[i].result # "ok" }

\* C4 (as claimed): a run that reaches the final return has exit code 0 exactly
\* when every planned delete and upload succeeded (none was planned, or the
\* user cancelled, included), and exit code 1 when one of them failed.
C4_ExitCodeTellsFailures ==
    (pc = "done" /\ exit_site = "report") =>
        /\ exit_code \in {0, 1}
        /\ exit_code = 0 <=> FailedItems = {}

\* The answer is "y" or "yes" in any letter case, as typed.
LiteralYes(inp) ==
    /\ inp.kind = "line"
    /\ lower(inp.text) \in { <<"y">>, <<"y", "e", "s">> }

\* The answer is "y" or "yes" in any letter case once blanks around it are dropped.
StrippedYes(inp) ==
    /\ inp.kind = "line"
    /\ lower(strip(inp.text)) \in { <<"y">>, <<"y", "e", "s">> }

\* The run ended with no delete and no upload sent, a sleep request sent and
\* exit code 0.
CancelledCleanly ==
    /\ ItemRequests = {}
    /\ RequestsOf("sleep") # {}
    /\ exit_code = 0

\* C5 (as claimed): an answer to the prompt other than "y" or "yes" in any
\* letter case is followed by no delete and no upload request, and the run
\* that reaches its end has sent the sleep request and has exit code 0.
C5_OtherThanYesCancels ==
    (response # NoInput /\ ~LiteralYes(response)) =>
        /\ ItemRequests = {}
        /\ (pc = "done" /\ exit_site = "report") => CancelledCleanly

\* C5 (amended): an answer to the prompt that, with the blanks around it
\* dropped, is not "y" or "yes" in any letter case (end of input and an
\* interrupt included) is followed by no delete and no upload request, and the
\* run ends with the sleep request sent and exit code 0.
C5_OtherThanStrippedYesCancels ==
    (response # NoInput /\ ~StrippedYes(response)) =>
        /\ ItemRequests = {}
        /\ pc = "done" => CancelledCleanly

\* C5 witness: a run with deletes and uploads planned that ended after the
\* prompt was interrupted.
C5_Witness ==
    /\ pc = "done"
    /\ response.kind = "KeyboardInterrupt"
    /\ files_to_delete # {}
    /\ new_files # {}
    /\ exit_code = 0

\* C6: a run that reaches the end of the pass has sent exactly one sleep
\* request, as its last request, and its exit code is decided by the failure
\* check alone, whatever became of the sleep request.
C6_OneSleepLastAndIgnored ==
    (pc = "done" /\ exit_site = "report") =>
        /\ Cardinality(RequestsOf("sleep")) = 1
        /\ requests[Len(requests)].op = "sleep"
        /\ exit_code = (IF has_failures THEN 1 ELSE 0)

\* C6 witness: a run that deleted and uploaded without failure, whose sleep
\* request failed and whose exit code is 0.
C6_Witness ==
    /\ pc = "done"
    /\ exit_site = "report"
    /\ RequestsOf("delete") # {}
    /\ RequestsOf("upload") # {}
    /\ requests[Len(requests)] = Req("sleep", NoImage, None, FALSE)
    /\ exit_code = 0

\* C7 (as claimed): every run that ends after the device object was created
\* has sent a sleep request.
C7_SleepOnEveryExit ==
    (pc = "done" /\ exit_site \notin {"source_missing", "source_not_dir"}) =>
        RequestsOf("sleep") # {}

\* C8: the plan built from the remote set as the plan would leave it
\* (R plus to_upload minus to_delete) uploads nothing and, in mirror mode,
\* deletes nothing.
C8_PlanIdempotent ==
    PlanBuilt =>
        LET R2 == (PlanR \cup NamesOf(new_files)) \ files_to_delete IN
        /\ NewFiles(local_files, R2) = {}
        /\ mirror => FilesToDelete(RemovedFiles(R2, PlanL), mirror) = {}

\* C8 witness: a plan in mirror mode with something to upload and to delete.
C8_Witness ==
    /\ PlanBuilt
    /\ mirror
    /\ new_files # {}
    /\ files_to_delete # {}
    /\ existing_files # {}

\* C9: to_upload and unchanged together are the local filenames, to_delete and
\* unchanged are remote filenames, and the three sets are pairwise disjoint.
C9_PlanPartitions ==
    PlanBuilt =>
        LET up == NamesOf(new_files)
            same == NamesOf(existing_files)
        IN  /\ up \cup same = PlanL
            /\ (files_to_delete \cup same) \subseteq PlanR
            /\ up \cap same = {}
            /\ up \cap files_to_delete = {}
            /\ same \cap files_to_delete = {}

\* C9 witness: a plan whose three sets are all non-empty.
C9_Witness ==
    /\ pc = "confirm"
    /\ new_files # {}
    /\ existing_files # {}
    /\ files_to_delete # {}

\* The gallery list was obtained and names no gallery like --gallery.
ListObtained == \E i \in RequestsOf("gallery_list") : requests[i].result
TargetAbsent == ListObtained /\ args_gallery \notin SeqRange(galleries)

\* The image files of the source folder: regular files whose suffix is .jpg
\* or .jpeg in any letter case.
LocalImageFiles ==
    { e \in dir : e.is_file /\
        e.suffix \in { JpgSuffix, UpperJpegSuffix, <<".", "j", "p", "e", "g">>,
                       <<".", "J", "P", "G">> } }

\* C10: when the gallery list names no gallery like --gallery, the remote set
\* is empty, every local image file is to be uploaded and nothing is to be
\* deleted; and the run then ends with exit code 1 only because the folder
\* scan, a file's stat or a planned item failed.
C10_AbsentGalleryIsEmpty ==
    /\ (PlanBuilt /\ TargetAbsent) =>
           /\ PlanR = {}
           /\ new_files = LocalImageFiles
           /\ files_to_delete = {}
    /\ (pc = "done" /\ TargetAbsent /\ exit_code = 1) =>
           \/ exit_site \in {"unexpected_scan", "unexpected_stat"}
           \/ exit_site = "report" /\
                  \E i \in ItemRequests : requests[i].result \in {"raises", "read_raises"}

\* C10 witness: a run on a device that has another gallery only, which
\* uploaded every local image file and ended with exit code 0.
C10_Witness ==
    /\ pc = "done"
    /\ galleries = <<OtherGallery>>
    /\ exit_code = 0
    /\ new_files # {}
    /\ \A f \in LocalImageFiles : Attempts("upload", f.name) = 1

\* C11: is_awake never raises; it returns true exactly when the GET of the
\* state endpoint was answered with status 200, and false for connection
\* refused, connect timeout, read timeout, DNS failure, socket error and any
\* other status.
C11_ProbeNeverRaises ==
    (step = "done" /\ call.fn = "is_awake") =>
        /\ ret.kind = "return"
        /\ ret.value \in BOOLEAN
        /\ ret.value <=> (call.reply.kind = "return" /\ call.reply.value = 200)

\* C11 witness: the GET ended with a plain socket error and is_awake
\* returned False.
C11_Witness ==
    /\ step = "done"
    /\ call.fn = "is_awake"
    /\ call.reply = Raised(Exc("OSError", "reset"))
    /\ ret = Returned(FALSE)

\* The probe of this run answered "not awake".
ProbeSaidAsleep == \E i \in RequestsOf("is_awake") : requests[i].result = FALSE

\* The run is past the place where the wake is decided.
WakeDecided ==
    /\ pc \notin {"start", "probe", "wake"}
    /\ exit_site \notin {"source_missing", "source_not_dir", "unexpected_probe"}

\* C12: a BLE wake is attempted if and only if --no-wakeup is absent and the
\* probe reported not awake; at most once in a run, and before the first
\* gallery request.
C12_WakeIffAsleep ==
    LET wakes == RequestsOf("ble_wake") IN
    /\ Cardinality(wakes) <= 1
    /\ wakes # {} => (~no_wakeup /\ ProbeSaidAsleep)
    /\ WakeDecided => ((~no_wakeup /\ ProbeSaidAsleep) => wakes # {})
    /\ \A i \in wakes : \A j \in 1..(i - 1) :
           requests[j].op \notin {"gallery_list", "get_images"}

\* C12 witness: a finished run that woke the device and then asked for the
\* gallery list and for the images of the target gallery.
C12_Witness ==
    /\ pc = "done"
    /\ RequestsOf("ble_wake") # {}
    /\ RequestsOf("gallery_list") # {}
    /\ RequestsOf("get_images") # {}

\* wake_device_bluetooth has ended.
WakeDone == step \in {"done", "failed"} /\ call.fn = "wake_device_bluetooth"

\* Two characters that differ at most in case.
SameLetter(a, b) == a = b \/ LowerChar(a) = b \/ a = LowerChar(b) \/ LowerChar(a) = LowerChar(b)

\* The advertisement has a name that contains the wanted name, case aside.
NameContains(wanted, name) ==
    /\ name.named
    /\ \E k \in 0..(Len(name.text) - Len(wanted)) :
         \A i \in 1..Len(wanted) : SameLetter(name.text[k + i], wanted[i])

\* The positions of the scanned advertisements that match the wanted name.
MatchingAdverts == { i \in DOMAIN call.devices : NameContains(call.device_name, call.devices[i]) }

FirstMatch == CHOOSE i \in MatchingAdverts : \A j \in MatchingAdverts : i <= j

\* Both characteristic writes were sent and succeeded.
BothWritesDone ==
    ble_writes = << GattWrite(WAKEUP_CHARACTERISTIC_UUID, WAKEUP_PAYLOAD),
                    GattWrite(WAKEUP_CHARACTERISTIC_UUID, WAKEUP_RESET_PAYLOAD) >>

\* C13: called without a known address, wake_device_bluetooth returns
\* (false, None) when no scanned advertisement has a name containing the
\* requested name as a case-insensitive substring, and (true, address of the
\* first matching advertisement) when there is a match and both writes succeed.
C13_ScanMatchDecidesResult ==
    (WakeDone /\ call.device_address = None) =>
        /\ MatchingAdverts = {} => ret = Returned(<< FALSE, None >>)
        /\ (MatchingAdverts # {} /\ BothWritesDone) =>
               ret = Returned(<< TRUE, AdvertAddress(FirstMatch) >>)

\* C14: the wake never throws; an exception raised while scanning,
\* connecting or during either write (or while the loop is obtained or the
\* connection is closed) ends the call with a result whose success is false.
C14_WakeNeverThrows ==
    WakeDone =>
        /\ ret.kind = "return"
        /\ step = "failed" => ret.value[1] = FALSE

\* C14 witness: the reset write raised after the wake byte had been written,
\* and the call returned (False, address).
C14_Witness ==
    /\ WakeDone
    /\ step = "failed"
    /\ ble_writes = << GattWrite(WAKEUP_CHARACTERISTIC_UUID, WAKEUP_PAYLOAD) >>
    /\ ret = Returned(<< FALSE, address >>)

\* A wake was attempted and failed.
WakeFailedInRun == \E i \in RequestsOf("ble_wake") : requests[i].result = FALSE

\* The return statements main() reaches for a reason other than the wake.
ExitsAfterWake ==
    { "galleries_none", "unreachable", "unexpected_list", "target_listing_failed",
      "target_unreachable", "unexpected_scan", "unexpected_stat", "report" }

\* C15: whatever the wake attempt gave, the gallery list is requested next;
\* a failed wake does not end the run and does not make the exit code 1.
C15_WakeOutcomeIgnored ==
    RequestsOf("ble_wake") # {} =>
        /\ pc # "list_galleries" => RequestsOf("gallery_list") # {}
        /\ \A i \in RequestsOf("ble_wake") :
             i = Len(requests) \/ requests[i + 1].op = "gallery_list"
        /\ pc = "done" =>
             /\ exit_site \in ExitsAfterWake
             /\ exit_site = "report" => (exit_code = 1 <=> has_failures)

\* C15 witness: the wake failed, the gallery list was requested all the same
\* and the run ended with exit code 0.
C15_Witness ==
    /\ pc = "done"
    /\ WakeFailedInRun
    /\ RequestsOf("gallery_list") # {}
    /\ exit_code = 0

\* C16: with a source path that does not exist or is not a directory the run
\* returns 1 at once: no probe, no BLE operation and no HTTP request is made.
C16_BadSourceTouchesNothing ==
    source \in {"missing", "not_dir"} =>
        /\ requests = <<>>
        /\ pc \in {"start", "done"}
        /\ pc = "done" => (exit_code = 1 /\ exit_site \in {"source_missing", "source_not_dir"})

\* C16 witness: the run has ended on a source path that is a file.
C16_Witness ==
    /\ source = "not_dir"
    /\ pc = "done"
    /\ exit_code = 1
    /\ requests = <<>>

\* The transport failures the claim names, as httpx raises them: connection
\* refused, connect timeout, read timeout, DNS failure, network error.
NamedTransportFailures ==
    { e \in TransportFailures :
        e.cls \in {"httpx.ConnectError", "httpx.ConnectTimeout", "httpx.ReadTimeout",
                   "httpx.ReadError"} }

\* C17: a manager method whose request fails with a transport-level failure
\* raises DeviceUnreachableError; no httpx exception leaves a manager method.
C17_OnlyDeviceUnreachableEscapes ==
    (step = "done" /\ call.fn = "manager" /\ call.outcome.kind = "raise"
       /\ call.outcome.value \in NamedTransportFailures) =>
        /\ ret.kind = "raise"
        /\ ret.value.cls = "DeviceUnreachableError"

\* main() returned from a statement that precedes the execution of the plan.
EndsEarly == pc = "done" /\ exit_site \notin {"report", "unexpected_stat"}

\* The early returns caused by an unreachable device or by the local file system.
UnreachableOrLocalExits ==
    { "source_missing", "source_not_dir", "unreachable", "target_unreachable",
      "unexpected_scan" }

\* The early returns caused by a listing that failed for another reason: the
\* gallery list call returned None or raised, the target listing raised.
ListingExits == { "galleries_none", "unexpected_list", "target_listing_failed" }

\* The requests for the images of the target gallery that raised.
FailedTargetListings ==
    { i \in RequestsOf("get_images") :
        requests[i].gallery = args_gallery /\ requests[i].result \in {"unreachable", "raises"} }

UnreadableUploads == { i \in RequestsOf("upload") : requests[i].result = "read_raises" }

\* C19 (as claimed): a file that is missing or unreadable when its upload is
\* attempted ends the run at once with exit code 1; no further item is
\* attempted and the error is not counted as a failure of that item only.
C19_LocalFileErrorIsFatal ==
    /\ exit_site = "unexpected_stat" => (pc = "done" /\ exit_code = 1)
    /\ \A i \in UnreadableUploads :
         /\ i = Len(requests)
         /\ pc = "done"
         /\ exit_code = 1

\* The filenames of the images the target gallery holds on the device.
DeviceNames == { e.name : e \in dev_images } \ {UNSET}

\* The run went through a confirmed (or forced) plan in mirror mode to its
\* final return, and the device carried out every delete and upload.
MirrorRunSucceeded ==
    /\ pc = "done"
    /\ exit_site = "report"
    /\ mirror
    /\ continue_sync
    /\ \A i \in ItemRequests : requests[i].result = "ok"

\* C20 (as claimed): after a mirror run whose plan was confirmed and whose
\* deletes and uploads all succeeded, the device's target gallery holds
\* exactly the filenames of the local image files.
C20_MirrorMakesSetsEqual ==
    MirrorRunSucceeded => DeviceNames = NamesOf(local_files)

\* C21 (as claimed): the remote filename set the plan is built from is the
\* set of names of all images the target gallery holds, whatever its size.
C21_ListingIsComplete ==
    (step = "done" /\ call.fn = "get_images") =>
        device_filenames(ret.value) = { e.name : e \in call.stored }

\* The plan holds at least one upload or delete.
PlanNonEmpty == new_files # {} \/ files_to_delete # {}

\* The run is past the place where the prompt is shown.
PastConfirm == PlanBuilt /\ pc # "confirm"

\* input() was called.
PromptRead == response # NoInput

\* C22: the prompt is read if and only if the plan is non-empty and --force
\* is absent; with --force and a non-empty plan the execution starts without
\* any input being read.
C22_PromptIffWorkAndNoForce ==
    /\ PromptRead => (PlanBuilt /\ PlanNonEmpty /\ ~force)
    /\ (PastConfirm /\ PlanNonEmpty /\ ~force) => PromptRead
    /\ (PastConfirm /\ PlanNonEmpty /\ force) =>
         /\ ~PromptRead
         /\ continue_sync
         /\ \/ pc \in {"delete", "upload"}
            \/ ItemRequests # {}
            \/ exit_site = "unexpected_stat"

\* C22 witness: a forced run with deletes only in its plan has sent a delete
\* request without reading the prompt.
C22_Witness ==
    /\ force
    /\ new_files = {}
    /\ files_to_delete # {}
    /\ RequestsOf("delete") # {}
    /\ ~PromptRead

\* The place of a request in the order probe, wake, gallery list, image
\* listings, deletes, uploads, sleep.
StepRank(op) ==
    CASE op = "is_awake" -> 1
      [] op = "ble_wake" -> 2
      [] op = "gallery_list" -> 3
      [] op = "get_images" -> 4
      [] op = "delete" -> 5
      [] op = "upload" -> 6
      [] OTHER -> 7

\* C23: the requests of a run follow the order probe, wake, gallery list,
\* image listings, deletes, uploads, sleep; probe, wake, gallery list and
\* sleep happen at most once, and nothing is sent after the sleep request.
C23_StepsInFixedOrder ==
    [][requests' # requests =>
         /\ Len(requests') = Len(requests) + 1
         /\ SubSeq(requests', 1, Len(requests)) = requests
         /\ requests # <<>> =>
                LET here == StepRank(LastRequest.op)
                    next == StepRank(requests'[Len(requests')].op)
                IN  /\ here <= next
                    /\ LastRequest.op \in {"is_awake", "ble_wake", "gallery_list", "sleep"} =>
                           here < next]_vars

\* C23 witness: a finished run whose log holds every kind of request.
C23_Witness ==
    /\ pc = "done"
    /\ \A op \in {"is_awake", "ble_wake", "gallery_list", "get_images", "delete",
                  "upload", "sleep"} : RequestsOf(op) # {}

\* The byte 0x01 and the byte 0x00 written to characteristic 0000f001-....
WakeByteWritten == [char |-> "0000f001-0000-1000-8000-00805f9b34fb", value |-> 1]
ResetByteWritten == [char |-> "0000f001-0000-1000-8000-00805f9b34fb", value |-> 0]

\* C24: in a wake signalling attempt 0x01 is written before 0x00, both to
\* characteristic 0000f001-..., over the one connection of the call; 0x00 is
\* written only after the write of 0x01 succeeded, and success is reported
\* only when both writes were made in that order.
C24_WakeThenReset ==
    /\ ble_writes \in { <<>>, << WakeByteWritten >>, << WakeByteWritten, ResetByteWritten >> }
    /\ step = "resetting" => ble_writes = << WakeByteWritten >>
    /\ step \in {"call", "scanning", "connecting", "signaling"} => ble_writes = <<>>
    /\ (WakeDone /\ ret.kind = "return" /\ ret.value[1]) =>
           ble_writes = << WakeByteWritten, ResetByteWritten >>

\* C24 witness: the call reported success after writing 0x01 and then 0x00.
C24_Witness ==
    /\ WakeDone
    /\ ret.kind = "return"
    /\ ret.value[1]
    /\ ble_writes = << WakeByteWritten, ResetByteWritten >>

\* C25: called with an already-known address, wake_device_bluetooth performs
\* no scan, and the second component of the result it returns is None whether
\* or not the signalling succeeded.
C25_KnownAddressReportsNone ==
    call.device_address = KnownAddress =>
        /\ step # "scanning"
        /\ (WakeDone /\ ret.kind = "return") => ret.value[2] = None

\* A call of wake_device is in progress on the session.
InWakeDevice == call.fn = "wake_device_bluetooth"

\* C26: over any sequence of wake_device calls on one session, the cached BLE
\* address is written by wake_device only when it was absent and the scan of
\* that call resolved an address (so at most once); an address supplied by the
\* caller or cached earlier is never overwritten or cleared, and every call
\* made while an address is cached uses it and does not scan.
C26_AddressCachedOnce ==
    /\ [](InWakeDevice =>
            /\ call.device_address = ble_address
            /\ step = "scanning" => ble_address = None
            /\ ble_address # None => address \in {None, ble_address})
    /\ [][(InWakeDevice /\ ble_address' # ble_address) =>
            /\ ble_address = None
            /\ address # None
            /\ address = scan_for_device_async(call.device_name, call.devices)
            /\ ble_address' = address]_vars

\* C26 witness: a later call on a session whose address was cached from a scan
\* connects to the cached address.
C26_Witness ==
    /\ InWakeDevice
    /\ call.calls > 1
    /\ ble_address \notin {None, KnownAddress}
    /\ step = "connecting"
    /\ address = ble_address

\* C27: the execution of a confirmed plan terminates after every planned
\* delete and upload has been attempted; the run then sends the sleep request
\* and returns exit code 0 or 1.
C27_ConfirmedPlanEndsAtSleep ==
    /\ continue_sync => pc \in {"delete", "upload", "report", "sleep", "done"}
    /\ (pc = "done" /\ continue_sync) =>
           /\ \A name \in files_to_delete : Attempts("delete", name) >= 1
           /\ \A f \in new_files : Attempts("upload", f.name) >= 1
           /\ requests # <<>>
           /\ requests[Len(requests)].op = "sleep"
           /\ exit_code \in {0, 1}

\* The deletes or uploads whose manager call returned: the device answered
\* with status 200 or with another status.
ReturnedItems(op) == { i \in RequestsOf(op) : requests[i].result \in {"ok", "not_ok"} }

\* C28: a delete or an upload is counted as succeeded whenever the manager
\* call returned without raising, whatever the status of the reply; when no
\* call of a confirmed plan raised, replies with a status other than 200
\* included, has_failures stays false and the exit code is 0.
C28_ReturnedCallCountsAsSuccess ==
    /\ deleted_count = Cardinality(ReturnedItems("delete"))
    /\ uploaded_count = Cardinality(ReturnedItems("upload"))
    /\ (continue_sync /\ (pc = "sleep" \/ (pc = "done" /\ exit_site = "report"))
          /\ \A i \in ItemRequests : requests[i].result \in {"ok", "not_ok"}) =>
           /\ ~has_failures
           /\ pc = "done" => exit_code = 0

\* C28 witness: a run ended with exit code 0 although the device answered a
\* delete and an upload with a status other than 200.
C28_Witness ==
    /\ pc = "done"
    /\ exit_code = 0
    /\ \E i \in RequestsOf("delete") : requests[i].result = "not_ok"
    /\ \E i \in RequestsOf("upload") : requests[i].result = "not_ok"

\* The run ended at line 196, in the handler of the target gallery's listing.
EndedAtTargetListing ==
    pc = "done" /\ exit_site \in {"target_unreachable", "target_listing_failed"}

\* The loop takes the next gallery and nothing else changes.
NextGalleryUntouched ==
    /\ pc' = "enumerate"
    /\ gal_idx' = gal_idx + 1
    /\ UNCHANGED << target_gallery, device_images, planVars, requests,
                    has_failures, exit_code, exit_site >>

\* C29: while the gallery list is enumerated, a failure (device unreachable
\* included) to list a gallery's images for its count is swallowed: the run
\* goes on with the next gallery exactly as after a count that returned, with
\* the target gallery, the listing, the plan and the exit code untouched; a
\* run ends on an image listing only when the separate listing of the target
\* gallery failed, and then with exit code 1.
C29_CountFailureIsSwallowed ==
    /\ [](pc \in {"counted", "count_failed"} =>
            /\ exit_code = -1
            /\ LastRequest = Req("get_images", NoImage, galleries[gal_idx], "count"))
    /\ [](EndedAtTargetListing <=>
            /\ pc = "done"
            /\ requests # <<>>
            /\ LastRequest.op = "get_images"
            /\ LastRequest.result \in {"unreachable", "raises"})
    /\ [](EndedAtTargetListing =>
            /\ exit_code = 1
            /\ LastRequest.gallery = args_gallery
            /\ target_gallery = args_gallery)
    /\ [][(pc \in {"counted", "count_failed"}) => NextGalleryUntouched]_vars

\* C29 witness: the image count of the target gallery has just failed during
\* the enumeration.
C29_Witness ==
    /\ pc = "count_failed"
    /\ galleries[gal_idx] = args_gallery
    /\ target_gallery = args_gallery

\* The names carried by the entries of the target gallery's listing.
ListedNames == { img.name : img \in { e \in device_images : e.name # UNSET } }

\* C30: every element of to_delete is the filename of an image the listing
\* of the target gallery returned; a listing entry without a name field adds
\* nothing to the remote filename set and causes no delete request.
C30_NamelessEntryIsIgnored ==
    /\ PlanBuilt => files_to_delete \subseteq ListedNames
    /\ \A i \in RequestsOf("delete") : requests[i].image \in ListedNames

====
